---------------------------- MODULE Spec2Model ----------------------------
(***************************************************************************)
(* Verification model of DNum (src/unnamed/part_003): a value V = s^d      *)
(* held as a side length s and a dimension d, with a TracerSystem ledger   *)
(* of residues per dimension.                                              *)
(*                                                                         *)
(* Numbers.  A JavaScript number is modelled as a decimal floating-point   *)
(* value sg * (hi * 10^8 + lo) * 10^ex with a 16-digit mantissa (the       *)
(* precision of an IEEE double is 15.95 decimal digits), kept in two       *)
(* 8-digit limbs.  Linear arithmetic (+, -, comparison, floor, % 1) is     *)
(* exact up to 16 digits and rounds to nearest beyond.  Math.log10 and     *)
(* Math.pow(10, x) work on a grid of LogScale steps per decade: a          *)
(* logarithm is an integer number of 1/LogScale decades.                   *)
(***************************************************************************)
EXTENDS Integers, Sequences, FiniteSets, TLC

----------------------------------------------------------------------------
(* Decimal floating point.  A nonzero number keeps exactly 16 digits:       *)
(* 10^7 <= hi < 10^8.                                                       *)

Limb == 10^8

MantDigits == 16

Max(a, b) == IF a >= b THEN a ELSE b

Min(a, b) == IF a <= b THEN a ELSE b

Zero == [sg |-> 0, hi |-> 0, lo |-> 0, ex |-> 0]

(* NaN: not a number.  No comparison with it holds and it is not zero. *)
NaN == [sg |-> 0, hi |-> 0, lo |-> 0, ex |-> 1]

(* the number of decimal digits of 0 < n < 2^31 *)
NDig(n) == 1 + Cardinality({k \in 1 .. 9 : n >= 10^k})

MDigits(m) == IF m[1] > 0 THEN 8 + NDig(m[1]) ELSE NDig(m[2])

(* the mantissa <<hi, lo>> times 10^k; the product has at most 17 digits *)
ShiftL(m, k) ==
    IF k <= 0 THEN m
    ELSE IF k < 8
    THEN <<m[1] * 10^k + (m[2] \div 10^(8 - k)), (m[2] % 10^(8 - k)) * 10^k>>
    ELSE <<m[2] * 10^(k - 8), 0>>

(* the mantissa <<hi, lo>> divided by 10^k, truncated *)
ShiftR(m, k) ==
    IF k <= 0 THEN m
    ELSE IF k < 8
    THEN <<m[1] \div 10^k, (m[1] % 10^k) * 10^(8 - k) + (m[2] \div 10^k)>>
    ELSE IF k < 18 THEN <<0, m[1] \div 10^(k - 8)>>
    ELSE <<0, 0>>

MAddSmall(m, n) ==
    IF m[2] + n >= Limb THEN <<m[1] + 1, m[2] + n - Limb>> ELSE <<m[1], m[2] + n>>

(* divided by 10^k, rounded to nearest (half away from zero) *)
RoundShr(m, k) == IF k <= 0 THEN m ELSE ShiftR(MAddSmall(ShiftR(m, k - 1), 5), 1)

MAdd(a, b) ==
    IF a[2] + b[2] >= Limb
    THEN <<a[1] + b[1] + 1, a[2] + b[2] - Limb>>
    ELSE <<a[1] + b[1], a[2] + b[2]>>

(* a - b for a >= b *)
MSub(a, b) ==
    IF a[2] >= b[2]
    THEN <<a[1] - b[1], a[2] - b[2]>>
    ELSE <<a[1] - b[1] - 1, a[2] + Limb - b[2]>>

MCmp(a, b) ==
    IF a[1] # b[1] THEN (IF a[1] < b[1] THEN -1 ELSE 1)
    ELSE IF a[2] # b[2] THEN (IF a[2] < b[2] THEN -1 ELSE 1)
    ELSE 0

Mant(x) == <<x.hi, x.lo>>

(* the number sg * m * 10^ex of a 16-digit mantissa m *)
MkNum(sg, m, ex) == [sg |-> sg, hi |-> m[1], lo |-> m[2], ex |-> ex]

(* 10^k *)
E(k) == [sg |-> 1, hi |-> Limb \div 10, lo |-> 0, ex |-> k - (MantDigits - 1)]

(* a mantissa rounded to 16 digits may have become 10^16 *)
NormCarry(sg, m, ex) ==
    IF m[1] >= Limb THEN MkNum(sg, <<Limb \div 10, 0>>, ex + 1) ELSE MkNum(sg, m, ex)

(* the mantissa m of n digits brought to 16 digits, rounding to nearest *)
NormBy(sg, m, ex, n) ==
    IF n > MantDigits
    THEN NormCarry(sg, RoundShr(m, n - MantDigits), ex + (n - MantDigits))
    ELSE MkNum(sg, ShiftL(m, MantDigits - n), ex - (MantDigits - n))

(* the number sg * m * 10^ex in its unique form, m of at most 18 digits *)
Norm(sg, m, ex) ==
    IF m = <<0, 0>> \/ sg = 0 THEN Zero ELSE NormBy(sg, m, ex, MDigits(m))

(* the number n * 10^ex for an integer |n| < 10^8 *)
Dec(n, ex) == Norm(IF n < 0 THEN -1 ELSE 1, <<0, IF n < 0 THEN -n ELSE n>>, ex)

(* position of the leading digit: |x| lies in [10^(Top(x)-1), 10^Top(x)) *)
Top(x) == x.ex + MantDigits

(* the mantissa of x at exponent ec, rounded when digits fall off *)
Align(x, ec) ==
    IF x.ex >= ec THEN ShiftL(Mant(x), x.ex - ec)
    ELSE RoundShr(Mant(x), ec - x.ex)

FNeg(x) == [x EXCEPT !.sg = -x.sg]

FAbs(x) == [x EXCEPT !.sg = IF x.sg = 0 THEN 0 ELSE 1]

(* the sum of sx * mx and sy * my, as a sign and a mantissa *)
SumSign(sx, sy, mx, my) == IF sx = sy \/ MCmp(mx, my) >= 0 THEN sx ELSE sy

SumMant(sx, sy, mx, my) ==
    IF sx = sy THEN MAdd(mx, my)
    ELSE IF MCmp(mx, my) >= 0 THEN MSub(mx, my)
    ELSE MSub(my, mx)

FAddAligned(sx, sy, mx, my, ec) ==
    Norm(SumSign(sx, sy, mx, my), SumMant(sx, sy, mx, my), ec)

(* both operands at the exponent ec, one guard digit below the larger one *)
FAddAt(x, y, ec) == FAddAligned(x.sg, y.sg, Align(x, ec), Align(y, ec), ec)

(* x + y as a double addition: exact when the sum has at most 16 digits *)
FAdd(x, y) ==
    IF x.sg = 0 THEN y
    ELSE IF y.sg = 0 THEN x
    ELSE FAddAt(x, y, Max(x.ex, y.ex) - 1)

FSub(x, y) == FAdd(x, FNeg(y))

(* comparison of the magnitudes of two numbers of one sign, exact *)
MagCmp(x, y) ==
    IF x.ex # y.ex THEN (IF x.ex < y.ex THEN -1 ELSE 1)
    ELSE MCmp(Mant(x), Mant(y))

FCmp(x, y) ==
    IF x.sg # y.sg THEN (IF x.sg < y.sg THEN -1 ELSE 1)
    ELSE x.sg * MagCmp(x, y)

FLt(x, y) == FCmp(x, y) < 0

FLe(x, y) == FCmp(x, y) <= 0

FGt(x, y) == FCmp(x, y) > 0

FGe(x, y) == FCmp(x, y) >= 0

(* Math.floor(x) for x >= 0, and x % 1 *)
FFloor(x) ==
    IF x.ex >= 0 THEN x
    ELSE IF -x.ex >= MantDigits THEN Zero
    ELSE Norm(x.sg, ShiftR(Mant(x), -x.ex), 0)

FMod1(x) == FSub(x, FFloor(x))

(* Math.floor(x) for x < 0, from the fraction f of |x| *)
FloorNeg(x, f) == IF f = Zero THEN x ELSE FSub(FAdd(x, f), E(0))

(* Math.floor(x) *)
Floor(x) == IF x.sg >= 0 THEN FFloor(x) ELSE FloorNeg(x, FMod1(FAbs(x)))

----------------------------------------------------------------------------
(* Math.log10 and Math.pow on a grid of LogScale steps per decade *)

LogScale == 100

(* PowTab[i + 1] = 1000 * 10^(i / LogScale), rounded *)
PowTab ==
  << 1000, 1023, 1047, 1072, 1096, 1122, 1148, 1175, 1202, 1230,
     1259, 1288, 1318, 1349, 1380, 1413, 1445, 1479, 1514, 1549,
     1585, 1622, 1660, 1698, 1738, 1778, 1820, 1862, 1905, 1950,
     1995, 2042, 2089, 2138, 2188, 2239, 2291, 2344, 2399, 2455,
     2512, 2570, 2630, 2692, 2754, 2818, 2884, 2951, 3020, 3090,
     3162, 3236, 3311, 3388, 3467, 3548, 3631, 3715, 3802, 3890,
     3981, 4074, 4169, 4266, 4365, 4467, 4571, 4677, 4786, 4898,
     5012, 5129, 5248, 5370, 5495, 5623, 5754, 5888, 6026, 6166,
     6310, 6457, 6607, 6761, 6918, 7079, 7244, 7413, 7586, 7762,
     7943, 8128, 8318, 8511, 8710, 8913, 9120, 9333, 9550, 9772,
     10000 >>

(* a / b rounded to the nearest integer, b > 0 *)
RoundDiv(a, b) == (2 * a + b) \div (2 * b)

(* Math.ceil(a / b), b > 0 *)
CeilDiv(a, b) == -((-a) \div b)

(* log10 of Number.MAX_VALUE (1.797e308) and of the least positive double
   (4.9e-324), in 1/LogScale decades, rounded towards zero *)
MaxLog10 == 30825

MinLog10 == -32400

(* Math.pow(10, y / LogScale) is Infinity *)
Overflows(y) == y > MaxLog10

(* Math.pow(10, y / LogScale) for a finite result; it underflows to 0.  The
   table entry has 4 digits. *)
Pow10(y) ==
    IF y < MinLog10 THEN Zero
    ELSE [sg |-> 1, hi |-> PowTab[(y % LogScale) + 1] * 10^4, lo |-> 0,
          ex |-> (y \div LogScale) - (MantDigits - 1)]

(* the 5-digit mantissa halfway between grid steps i - 1 and i *)
TabMid(tab, i) == 5 * (tab[i] + tab[i + 1])

(* the grid step nearest to the 5-digit mantissa m5: the largest i in lo .. hi
   with m5 above the halfway mark below step i, by bisection *)
RECURSIVE TabIndexIn(_, _, _)
TabBisect(m5, lo, hi, mid) ==
    IF m5 > TabMid(PowTab, mid) THEN TabIndexIn(m5, mid, hi)
    ELSE TabIndexIn(m5, lo, mid - 1)

TabIndexIn(m5, lo, hi) ==
    IF lo >= hi THEN lo ELSE TabBisect(m5, lo, hi, (lo + hi + 1) \div 2)

TabIndex(m5) == TabIndexIn(m5, 0, LogScale)

(* Math.log10(|x|) * LogScale for x # 0, to the nearest grid step *)
FLog10(x) == (Top(x) - 1) * LogScale + TabIndex(x.hi \div 1000)

(* Math.log10(Math.abs(x) || eps) with eps = 10^(-floorDecades) *)
LogOr(x, floorDecades) ==
    IF x.sg = 0 THEN -floorDecades * LogScale ELSE FLog10(x)

(* sign * x for sign in {1, -1} and x >= 0 *)
Signed(sign, x) == IF sign < 0 THEN FNeg(x) ELSE x

(* x >= 0 ? 1 : -1 *)
SignOf(x) == IF x.sg >= 0 THEN 1 ELSE -1

----------------------------------------------------------------------------
(* TracerSystem.buckets: a Map<number, number>, kept in insertion order *)

THRESHOLD == 100

MAX_S == 100

BHas(bs, dim) == \E i \in 1 .. Len(bs) : bs[i].dim = dim

(* this.buckets.get(dim) || 0 *)
BGet(bs, dim) ==
    IF BHas(bs, dim)
    THEN bs[CHOOSE i \in 1 .. Len(bs) : bs[i].dim = dim].val
    ELSE Zero

(* this.buckets.set(dim, v): an existing key keeps its place *)
BSet(bs, dim, v) ==
    IF BHas(bs, dim)
    THEN [i \in 1 .. Len(bs) |-> IF bs[i].dim = dim THEN [dim |-> dim, val |-> v] ELSE bs[i]]
    ELSE Append(bs, [dim |-> dim, val |-> v])

(* buckets.delete(dim) *)
BDelete(bs, dim) == SelectSeq(bs, LAMBDA b : b.dim # dim)

(* Math.pow(|x|, p / q) *)
PowFrac(x, p, q) == Pow10(RoundDiv(FLog10(x) * p, q))

----------------------------------------------------------------------------
(* DNum: the heap h holds the instances (h.num) and their ledgers (h.trs) *)

(* get totalLog *)
TotalLogOf(s, d) == d * LogOr(s, 15)

TotalLog(h, o) == TotalLogOf(h.num[o].s, h.num[o].d)

(* the ceiling of the promotion loop: this.d === 1 ? 1e15 : 100 *)
Ceiling(d) == IF d = 1 THEN E(15) ELSE Dec(MAX_S, 0)

(* the floor of the demotion loop, MIN_S = 1.1 *)
MIN_S == Dec(11, -1)

(* the promotion loop:
   while (Math.abs(this.s) >= ceiling) { this.d += 1; this.s = sign * 10^(logV / this.d) } *)
PromoteGuard(sd) == FGe(FAbs(sd.s), Ceiling(sd.d))

PromoteStep(sd, sign, logV) ==
    [s |-> Signed(sign, Pow10(RoundDiv(logV, sd.d + 1))), d |-> sd.d + 1]

(* a demotion loop that runs on every side length below the ceiling *)
DemoteGuardBelowCeiling(sd) == FLt(FAbs(sd.s), Dec(MAX_S, 0)) /\ sd.d > 1

(* the demotion loop:
   while (Math.abs(this.s) < 1.1 && this.d > 1) { this.d -= 1; this.s = sign * 10^(logV / this.d) } *)
DemoteGuard(sd) == FLt(FAbs(sd.s), MIN_S) /\ sd.d > 1

DemoteStep(sd, sign, logV) ==
    [s |-> Signed(sign, Pow10(RoundDiv(logV, sd.d - 1))), d |-> sd.d - 1]

(* up to n turns of a loop, the second half of them taken on the value the
   first half computed: the evaluation stays shallow however many turns a loop
   takes *)
LoopBlock == 64

RECURSIVE PromoteTurns(_, _, _, _)
PromoteTurns(sd, sign, logV, n) ==
    IF ~PromoteGuard(sd) THEN sd
    ELSE IF n = 1 THEN PromoteStep(sd, sign, logV)
    ELSE CHOOSE r \in { PromoteTurns(x, sign, logV, n - (n \div 2)) :
                        x \in {PromoteTurns(sd, sign, logV, n \div 2)} } : TRUE

(* a promotion loop that takes one turn *)
PromoteOnce(sd, sign, logV) == IF PromoteGuard(sd) THEN PromoteStep(sd, sign, logV) ELSE sd

RECURSIVE PromoteLoop(_, _, _)
PromoteLoop(sd, sign, logV) ==
    IF ~PromoteGuard(sd) THEN sd
    ELSE CHOOSE r \in { PromoteLoop(x, sign, logV) :
                        x \in {PromoteTurns(sd, sign, logV, LoopBlock)} } : TRUE

RECURSIVE DemoteTurns(_, _, _, _)
DemoteTurns(sd, sign, logV, n) ==
    IF ~DemoteGuard(sd) THEN sd
    ELSE IF n = 1 THEN DemoteStep(sd, sign, logV)
    ELSE CHOOSE r \in { DemoteTurns(x, sign, logV, n - (n \div 2)) :
                        x \in {DemoteTurns(sd, sign, logV, n \div 2)} } : TRUE

RECURSIVE DemoteLoop(_, _, _)
DemoteLoop(sd, sign, logV) ==
    IF ~DemoteGuard(sd) THEN sd
    ELSE CHOOSE r \in { DemoteLoop(x, sign, logV) :
                        x \in {DemoteTurns(sd, sign, logV, LoopBlock)} } : TRUE

(* the two loops of normalize(), one after the other *)
NormalizeLoops(sd, sign, logV) ==
    CHOOSE r \in { DemoteLoop(x, sign, logV) : x \in {PromoteLoop(sd, sign, logV)} } : TRUE

(* normalize() on the fields (s, d) *)
Normalize(s, d) ==
    IF s.sg = 0 THEN [s |-> Zero, d |-> 1]
    ELSE IF d = 1 /\ FLt(FAbs(s), E(15)) /\ FGt(FAbs(s), E(-10)) THEN [s |-> s, d |-> d]
    ELSE NormalizeLoops([s |-> s, d |-> d], SignOf(s), d * FLog10(s))

(* this.s and this.d are assigned; h.jumps is the history of the assignments
   that changed d: whose d it was, the side length raw the instance held when
   the assignment was decided, the old d and the new one *)
SetSD(h, o, sd, raw) ==
    [h EXCEPT !.num[o].s = sd.s, !.num[o].d = sd.d,
              !.jumps = IF sd.d = h.num[o].d THEN @
                        ELSE Append(@, [o |-> o, s |-> raw, d |-> h.num[o].d, to |-> sd.d])]

SetS(h, o, s) == [h EXCEPT !.num[o].s = s]

NormalizeObj(h, o) == SetSD(h, o, Normalize(h.num[o].s, h.num[o].d), h.num[o].s)

(* this.s = sign * Math.pow(10, y); this.normalize().  When the power is
   Infinity the promotion loop of normalize() never ends (Infinity stays >= the
   ceiling at every d): the call does not return, h.hung *)
SetPowAt(h, o, sign, y) ==
    IF Overflows(y) THEN [h EXCEPT !.hung = TRUE]
    ELSE NormalizeObj(SetS(h, o, Signed(sign, Pow10(y))), o)

(* this.s = sign * Math.pow(10, newLog / this.d); this.normalize() *)
SetPowAndNormalize(h, o, sign, newLog) == SetPowAt(h, o, sign, RoundDiv(newLog, h.num[o].d))

SetBucket(h, t, dim, v) == [h EXCEPT !.trs[t].buckets = BSet(@, dim, v)]

RECURSIVE InternalAdd(_, _, _, _)
RECURSIVE Deposit(_, _, _, _)

(* the constructor's closure (val, dim) => this.internalAdd(val, dim) *)
OnOverflow(h, t, val, dim) == InternalAdd(h, h.trs[t].owner, val, dim)

(* a promotion test that lets the threshold itself stay in the bucket *)
OverflowingAbove(nextValue) == FGt(FAbs(nextValue), Dec(THRESHOLD, 0))

(* nextValue >= this.THRESHOLD, or nextValue <= -this.THRESHOLD *)
Overflowing(nextValue) == FGe(FAbs(nextValue), Dec(THRESHOLD, 0))

(* a promotion that hands the running sum on as it is *)
PromotedSame(nextValue, dim) == nextValue

(* promotedS = Math.pow(nextValue, dim / (dim + 1)), or
   demotedS = -Math.pow(Math.abs(nextValue), dim / (dim + 1)) *)
PromotedS(nextValue, dim) ==
    Signed(SignOf(nextValue), PowFrac(FAbs(nextValue), dim, dim + 1))

(* deposit(value, dim), from the running sum nextValue on *)
DepositNext(h, t, dim, nextValue) ==
    IF dim = 1 THEN SetBucket(h, t, dim, nextValue)
    ELSE IF Overflowing(nextValue)
    THEN OnOverflow(SetBucket(h, t, dim, Zero), t, PromotedS(nextValue, dim), dim + 1)
    ELSE SetBucket(h, t, dim, nextValue)

(* TracerSystem.deposit(value, dim) on ledger t *)
Deposit(h, t, value, dim) ==
    IF value = Zero THEN h
    ELSE DepositNext(h, t, dim, FAdd(BGet(h.trs[t].buckets, dim), value))

(* this.s += amountS; if (Math.abs(this.s) > 1e15) this.normalize() *)
LinearSum(h, o, sum) ==
    IF FGt(FAbs(sum), E(15)) THEN NormalizeObj(SetS(h, o, sum), o) ELSE SetS(h, o, sum)

(* a linear range without the 15-decade test *)
LinearAddDirect(h, o, amountS) == LinearSum(h, o, FAdd(h.num[o].s, amountS))

(* the linear range of internalAdd: this.d === 1 && amountD === 1 *)
LinearAdd(h, o, amountS) ==
    IF LogOr(h.num[o].s, 20) - LogOr(amountS, 20) > 15 * LogScale
    THEN Deposit(h, h.num[o].tr, amountS, 1)
    ELSE LinearSum(h, o, FAdd(h.num[o].s, amountS))

(* the dimensional path of internalAdd, from resLinear (signed) on *)
DimensionalSum(h, o, maxLog, resLinear) ==
    IF FLt(FAbs(resLinear), E(-18)) THEN SetSD(h, o, [s |-> Zero, d |-> 1], Zero)
    ELSE SetPowAndNormalize(h, o, SignOf(resLinear), maxLog + FLog10(resLinear))

(* resLinear = signA * 10^(logV1 - maxLog) + signB * 10^(logV2 - maxLog) *)
DimensionalLinear(h, o, signA, signB, logV1, logV2, maxLog) ==
    DimensionalSum(h, o, maxLog, FAdd(Signed(signA, Pow10(logV1 - maxLog)),
                                      Signed(signB, Pow10(logV2 - maxLog))))

(* a dimensional path that deposits at the receiver's dimension *)
DimensionalGapOwnDim(h, o, amountS, amountD, logV1, logV2) ==
    IF logV1 - logV2 > 15 * LogScale
    THEN Deposit(h, h.num[o].tr, amountS, h.num[o].d)
    ELSE DimensionalLinear(h, o, SignOf(h.num[o].s), SignOf(amountS),
                           logV1, logV2, Max(logV1, logV2))

(* the dimensional path of internalAdd, from logV1 and logV2 on *)
DimensionalGap(h, o, amountS, amountD, logV1, logV2) ==
    IF logV1 - logV2 > 15 * LogScale
    THEN Deposit(h, h.num[o].tr, amountS, amountD)
    ELSE DimensionalLinear(h, o, SignOf(h.num[o].s), SignOf(amountS),
                           logV1, logV2, Max(logV1, logV2))

(* the dimensional path of internalAdd *)
DimensionalAdd(h, o, amountS, amountD) ==
    DimensionalGap(h, o, amountS, amountD, TotalLog(h, o), amountD * LogOr(amountS, 15))

(* internalAdd(amountS, amountD) on instance o *)
InternalAdd(h, o, amountS, amountD) ==
    IF h.hung \/ amountS = Zero THEN h
    ELSE IF h.num[o].d = 1 /\ amountD = 1 THEN LinearAdd(h, o, amountS)
    ELSE DimensionalAdd(h, o, amountS, amountD)

----------------------------------------------------------------------------
(* The public operations.  Each takes the heap and returns the heap after. *)

(* a constructor that hands every instance the one ledger *)
NewTracerShared(o) == 1

(* new TracerSystem(...): a fresh ledger, owned by the instance under construction *)
NewTracer(o) == o

(* constructor(s, d) building instance o *)
NewDNum(h, o, s, d) ==
    LET t  == NewTracer(o)
        h1 == [h EXCEPT !.num[o] = [s |-> s, d |-> d, tr |-> t],
                        !.trs[t] = [buckets |-> <<>>, owner |-> o]]
    IN  NormalizeObj(h1, o)

(* getBuckets(): a copy of the ledger of instance o *)
GetBuckets(h, o) == h.trs[h.num[o].tr].buckets

(* clear() on the ledger of instance o *)
ClearBuckets(h, o) == [h EXCEPT !.trs[h.num[o].tr].buckets = <<>>]

(* buckets.forEach((val, dim) => this.internalAdd(sign * val, dim)) *)
RECURSIVE TransferBuckets(_, _, _, _)
TransferBuckets(h, o, bs, sign) ==
    IF bs = <<>> THEN h
    ELSE TransferBuckets(InternalAdd(h, o, Signed(sign, Head(bs).val), Head(bs).dim),
                         o, Tail(bs), sign)

(* an add and sub that leave the operand's buckets behind *)
TransferNone(h, o, other, sign) == h

(* the second statement of add and sub: the operand's buckets, read after the
   first statement has run *)
TransferFrom(h, o, other, sign) == TransferBuckets(h, o, GetBuckets(h, other), sign)

(* this.add(other) *)
AddOp(h, o, other) ==
    TransferFrom(InternalAdd(h, o, h.num[other].s, h.num[other].d), o, other, 1)

(* this.sub(other) *)
SubOp(h, o, other) ==
    TransferFrom(InternalAdd(h, o, FNeg(h.num[other].s), h.num[other].d), o, other, -1)

(* the rescaled side length of one bucket in mul: 10^((dim*log10|val| + factorLog)/dim);
   log10(0) is -Infinity and the power of it is 0 *)
MulBucket(val, dim, factorLog) ==
    IF val = Zero THEN Zero
    ELSE Pow10(RoundDiv(dim * FLog10(val) + factorLog, dim))

(* the rescaled side length of one bucket in div: Math.max(0, -Infinity) is 0 *)
DivBucket(val, dim, divisorLog) ==
    IF val = Zero THEN Pow10(0)
    ELSE Pow10(RoundDiv(Max(0, dim * FLog10(val) - divisorLog), dim))

(* the forEach of mul and div over the copy bs of the buckets *)
RECURSIVE RescaleBuckets(_, _, _, _, _)
RescaleBuckets(h, o, bs, factorLog, isMul) ==
    IF bs = <<>> THEN h
    ELSE RescaleBuckets(InternalAdd(h, o,
                                    IF isMul THEN MulBucket(Head(bs).val, Head(bs).dim, factorLog)
                                    ELSE DivBucket(Head(bs).val, Head(bs).dim, factorLog),
                                    Head(bs).dim),
                        o, Tail(bs), factorLog, isMul)

(* the buckets are cleared and each one is added back rescaled *)
Rescaled(h, o, factorLog, isMul) ==
    RescaleBuckets(ClearBuckets(h, o), o, GetBuckets(h, o), factorLog, isMul)

(* const newLog = this.totalLog + other.totalLog; ... this.normalize() *)
MulMain(h, o, factorLog) ==
    IF h.hung THEN h ELSE SetPowAndNormalize(h, o, 1, TotalLog(h, o) + factorLog)

(* const newLog = Math.max(0, this.totalLog - divisorLog); ... this.normalize() *)
DivMain(h, o, divisorLog) ==
    IF h.hung THEN h ELSE SetPowAndNormalize(h, o, 1, Max(0, TotalLog(h, o) - divisorLog))

MulBy(h, o, factorLog) == MulMain(Rescaled(h, o, factorLog, TRUE), o, factorLog)

DivBy(h, o, divisorLog) == DivMain(Rescaled(h, o, divisorLog, FALSE), o, divisorLog)

(* this.mul(other) *)
MulOp(h, o, other) == MulBy(h, o, TotalLog(h, other))

(* this.div(other) *)
DivOp(h, o, other) == DivBy(h, o, TotalLog(h, other))

(* TracerSystem.isEmpty(): the first nonzero value ends the loop *)
RECURSIVE IsEmpty(_)
IsEmpty(bs) ==
    IF Len(bs) = 0 THEN TRUE
    ELSE IF Head(bs).val # Zero THEN FALSE
    ELSE IsEmpty(Tail(bs))

(* isZero() that looks at the main value only *)
IsZeroMainOnly(h, o) == h.num[o].s = Zero

(* this.isZero() *)
IsZero(h, o) == IF h.num[o].s # Zero THEN FALSE ELSE IsEmpty(h.trs[h.num[o].tr].buckets)

(* Array.from(buckets.keys()).sort((a, b) => a - b) *)
RECURSIVE SortedDims(_)
SortedDims(dimSet) ==
    IF dimSet = {} THEN <<>>
    ELSE LET m == CHOOSE x \in dimSet : \A y \in dimSet : x <= y
         IN  <<m>> \o SortedDims(dimSet \ {m})

(* one bucket of collapse(): this.s += val, or this.internalAdd(val, dim) *)
CollapseOne(h, o, val, dim) ==
    IF h.num[o].d = 1 /\ dim = 1 THEN SetS(h, o, FAdd(h.num[o].s, val))
    ELSE InternalAdd(h, o, val, dim)

(* the loop of collapse(): buckets is the local copy that getBuckets() returned *)
RECURSIVE CollapseLoop(_, _, _, _)
CollapseLoop(h, o, buckets, dims) ==
    IF dims = <<>> \/ h.hung THEN h
    ELSE IF BGet(buckets, Head(dims)) # Zero
    THEN CollapseLoop(CollapseOne(h, o, BGet(buckets, Head(dims)), Head(dims)),
                      o, BDelete(buckets, Head(dims)), Tail(dims))
    ELSE CollapseLoop(h, o, buckets, Tail(dims))

DimsOf(buckets) == SortedDims({buckets[i].dim : i \in 1 .. Len(buckets)})

(* this.normalize(), the last statement of collapse() *)
CollapseEnd(h, o) == IF h.hung THEN h ELSE NormalizeObj(h, o)

(* this.collapse() *)
CollapseOp(h, o) ==
    CollapseEnd(CollapseLoop(h, o, GetBuckets(h, o), DimsOf(GetBuckets(h, o))), o)

(* Math.max(1, Math.ceil(logV / 2)) *)
TargetDim(logV) == Max(1, CeilDiv(logV, 2 * LogScale))

(* static fromLog(logV), building instance o *)
FromLogOp(h, o, logV) ==
    IF logV <= -15 * LogScale THEN NewDNum(h, o, Zero, 1)
    ELSE NewDNum(h, o, Pow10(RoundDiv(logV, TargetDim(logV))), TargetDim(logV))

(* the field d holding NaN; d is an integer everywhere else *)
NaNDim == -1

(* new DNum(NaN, NaN): every guard of normalize() is false on NaN, and the
   fields stay as they were set *)
NewNaN(h, o) ==
    [h EXCEPT !.num[o] = [s |-> NaN, d |-> NaNDim, tr |-> NewTracer(o)],
              !.trs[NewTracer(o)] = [buckets |-> <<>>, owner |-> o]]

(* a fromAny that forgets the sign of its input *)
FromAnyLogUnsigned(h, o, sign, logV) ==
    NewDNum(h, o, Pow10(RoundDiv(logV, TargetDim(logV))), TargetDim(logV))

(* fromAny from logV = Math.log10(absVal) on, for absVal >= 1e15 *)
FromAnyLog(h, o, sign, logV) ==
    NewDNum(h, o, Signed(sign, Pow10(RoundDiv(logV, TargetDim(logV)))), TargetDim(logV))

(* static fromAny(input) from val on, building instance o.  On NaN, val === 0
   and absVal < 1e15 are false and targetDim = Math.max(1, NaN) is NaN *)
FromAnyOp(h, o, val) ==
    IF val = NaN THEN NewNaN(h, o)
    ELSE IF val = Zero THEN NewDNum(h, o, Zero, 1)
    ELSE IF FLt(FAbs(val), E(15)) THEN NewDNum(h, o, val, 1)
    ELSE FromAnyLog(h, o, SignOf(val), FLog10(val))

(* parseFloat(input) for a string input *)
ParseFloat(input) ==
    CASE input = "150"  -> Dec(150, 0)
      [] input = "-2e15" -> Dec(-2, 15)
      [] input = "0"    -> Zero
      [] OTHER          -> NaN

(* serialize(): the JSON text carries s, d and the bucket entries; a finite
   double survives JSON.stringify and JSON.parse unchanged *)
Serialize(h, o) == [s |-> h.num[o].s, d |-> h.num[o].d, buckets |-> GetBuckets(h, o)]

RECURSIVE DepositAll(_, _, _)
DepositAll(h, t, bs) ==
    IF bs = <<>> THEN h
    ELSE DepositAll(Deposit(h, t, Head(bs).val, Head(bs).dim), t, Tail(bs))

(* static deserialize(json), building instance o *)
DeserializeOp(h, o, data) ==
    LET h1 == NewDNum(h, o, data.s, data.d)
    IN  DepositAll(h1, h1.num[o].tr, data.buckets)

(* a square root that returns its argument *)
FSqrtSame(x) == x

(* Math.sqrt(x) for x > 0 *)
FSqrt(x) == Pow10(RoundDiv(FLog10(x), 2))

(* this.sqrt() of instance src with s >= 0, building instance o *)
SqrtOp(h, o, src) ==
    IF h.num[src].s = Zero THEN NewDNum(h, o, Zero, 1)
    ELSE IF h.num[src].d = 1 /\ FLt(h.num[src].s, E(15))
    THEN FromAnyOp(h, o, FSqrt(h.num[src].s))
    ELSE FromLogOp(h, o, RoundDiv(TotalLog(h, src), 2))

(* res.s *= resultSign *)
TimesSign(h, o, resultSign) == IF resultSign < 0 THEN SetS(h, o, FNeg(h.num[o].s)) ELSE h

(* this.pow(n) of instance src for an integer n, building instance o *)
PowOp(h, o, src, n) ==
    IF h.num[src].s = Zero THEN NewDNum(h, o, Zero, 1)
    ELSE IF n = 0 THEN FromAnyOp(h, o, E(0))
    ELSE IF n = 1 THEN DeserializeOp(h, o, Serialize(h, src))
    ELSE TimesSign(FromLogOp(h, o, n * TotalLog(h, src)), o,
                   IF h.num[src].s.sg < 0 /\ n % 2 # 0 THEN -1 ELSE 1)

(* getDistance from maxLog and minLog on *)
DistanceOf(h, o, maxLog, minLog) ==
    IF maxLog - minLog > 15 * LogScale THEN FromLogOp(h, o, maxLog)
    ELSE FromLogOp(h, o, maxLog + FLog10(FSub(E(0), Pow10(minLog - maxLog))))

DistanceLogs(h, o, logA, logB) ==
    IF logA = logB THEN NewDNum(h, o, Zero, 1)
    ELSE DistanceOf(h, o, Max(logA, logB), Min(logA, logB))

(* static getDistance(a, b), building instance o *)
GetDistanceOp(h, o, a, b) == DistanceLogs(h, o, TotalLog(h, a), TotalLog(h, b))

----------------------------------------------------------------------------
(* Strings.  A styled string is held as its parts: the sign, the subscript  *)
(* digits (dim), the plain digits (main) and the superscript digits (frac,  *)
(* places of them).                                                         *)

(* x.toFixed(places) for 0 <= x <= 1, as the integer x * 10^places rounded *)
ToFixed(x, places) == Align(x, -places)

(* the digits after the point of that text: "1.00" leaves "00" *)
AfterPoint(m, places) ==
    IF places >= 8 THEN <<m[1] % 10^(places - 8), m[2]>> ELSE <<0, m[2] % 10^places>>

(* toString(precision) of instance o *)
ToStyled(h, o, precision) ==
    IF h.num[o].s.sg = 0
    THEN [neg |-> FALSE, dim |-> 0, main |-> Zero, frac |-> <<0, 0>>, places |-> precision]
    ELSE [neg    |-> h.num[o].s.sg < 0,
          dim    |-> h.num[o].d,
          main   |-> FFloor(FAbs(h.num[o].s)),
          frac   |-> AfterPoint(ToFixed(FMod1(FAbs(h.num[o].s)), precision), precision),
          places |-> precision]

(* a parse that reads the plain digits only *)
StyledValueMainOnly(styled) == Signed(IF styled.neg THEN -1 ELSE 1, styled.main)

(* parseFloat(mainStr + "." + fracStr) || 0 *)
StyledValue(styled) ==
    Signed(IF styled.neg THEN -1 ELSE 1,
           FAdd(styled.main, Norm(1, styled.frac, -styled.places)))

(* static fromStyledString(styled), building instance o; parseInt(dimStr) || 1 *)
FromStyledOp(h, o, styled) ==
    NewDNum(h, o, StyledValue(styled), IF styled.dim = 0 THEN 1 ELSE styled.dim)

(* the decimal digits of 0 <= n < 10^width, with leading zeros *)
RECURSIVE Digits(_, _)
Digits(n, width) ==
    IF width = 0 THEN "" ELSE Digits(n \div 10, width - 1) \o ToString(n % 10)

(* the text of the integer m = <<hi, lo>> *)
MantText(m) == IF m[1] > 0 THEN ToString(m[1]) \o Digits(m[2], 8) ELSE ToString(m[2])

(* the places digits of m = <<hi, lo>>, 8 <= places <= 16 or hi = 0 *)
FracText(m, places) ==
    IF places > 8 THEN Digits(m[1], places - 8) \o Digits(m[2], 8) ELSE Digits(m[2], places)

(* BigInt.toString() of an integer-valued x *)
IntText(x) == IF x.sg < 0 THEN "-" \o MantText(Align(x, 0)) ELSE MantText(Align(x, 0))

(* for (const val of buckets.values()) fractionalAccumulator += val *)
RECURSIVE Accumulate(_, _)
Accumulate(acc, bs) ==
    IF bs = <<>> THEN acc ELSE Accumulate(FAdd(acc, Head(bs).val), Tail(bs))

(* steps 3 and 4 of toPreciseString, from the accumulator and its carry on *)
PreciseText(s, integerPart, acc, carry, places) ==
    (IF s.sg < 0 THEN "-" ELSE "")
        \o IntText(FAdd(integerPart, carry)) \o "."
        \o FracText(AfterPoint(ToFixed(FAbs(FSub(acc, carry)), places), places), places)

PreciseFrom(s, integerPart, acc, places) ==
    PreciseText(s, integerPart, acc, Floor(acc), places)

(* toPreciseString(decimalPlaces) of instance o at d == 1 *)
ToPreciseString(h, o, decimalPlaces) ==
    PreciseFrom(h.num[o].s, FFloor(FAbs(h.num[o].s)),
                Accumulate(FMod1(FAbs(h.num[o].s)), GetBuckets(h, o)), decimalPlaces)

----------------------------------------------------------------------------
(* The state machine: instances 1, 2 and 3 are built by the constructor;    *)
(* 1 and 2 are then mutated by add, sub, mul, div and collapse, with any of *)
(* the three as the operand.  The operations that return a new value        *)
(* (pow, sqrt, getDistance, fromLog, fromAny, fromStyledString,             *)
(* deserialize) store it as instance 3.  Arithmetic on NaN is not           *)
(* modelled: a run ends when a call has returned NaN.                       *)

VARIABLES heap, prev, last, steps

vars == <<heap, prev, last, steps>>

NObj == 3

MaxSteps == 2

Objs == 1 .. NObj

(* memory before any constructor has run *)
Blank ==
    [num  |-> [o \in Objs |-> [s |-> Zero, d |-> 1, tr |-> o]],
     trs  |-> [o \in Objs |-> [buckets |-> <<>>, owner |-> o]],
     hung |-> FALSE,
     jumps |-> <<>>]

(* constructor arguments <<s, d>> of the three instances: finite s, positive integer d *)
Inputs ==
    { << <<Dec(10, 0), 1>>,   <<Dec(10, 0), 1>>,   <<Dec(150, 0), 1>> >>,
      << <<Dec(100, 0), 1>>,  <<Dec(150, 0), 1>>,  <<Dec(-50, 0), 1>> >>,
      << <<Dec(3, 11), 1>>,   <<Dec(1, -9), 1>>,   <<Dec(3, 11), 1>> >>,
      << <<Dec(-3, 11), 1>>,  <<Dec(-1, -9), 1>>,  <<Dec(1, -4), 1>> >>,
      << <<Dec(1, 14), 1>>,   <<Dec(1, -2), 1>>,   <<Dec(9, 14), 1>> >>,
      << <<Dec(9, 14), 1>>,   <<Dec(5, -1), 1>>,   <<Dec(99999, -5), 1>> >>,
      << <<Zero, 1>>,         <<Dec(1, -20), 1>>,  <<Dec(5, 0), 1>> >>,
      << <<Dec(5, 0), 1>>,    <<Dec(1, -20), 1>>,  <<Dec(2, 0), 1>> >>,
      << <<Dec(-5, 0), 1>>,   <<Dec(-1, -20), 1>>, <<Dec(-2, 0), 1>> >>,
      << <<Dec(90, 0), 12>>,  <<Dec(50, 0), 1>>,   <<Dec(50, 0), 2>> >>,
      << <<Dec(87, 0), 17>>,  <<Dec(50, 0), 10>>,  <<Dec(50, 0), 10>> >>,
      << <<Dec(50, 0), 20>>,  <<Dec(5, 0), 1>>,    <<Dec(-50, 0), 20>> >>,
      << <<Dec(10, 0), 100>>, <<Dec(10, 0), 100>>, <<Dec(200, 0), 1>> >>,
      << <<Dec(10, 0), 100>>, <<Dec(10, 0), 100>>, <<Dec(1, -40), 1>> >>,
      << <<Dec(-50, 0), 1>>,  <<Dec(90, 0), 12>>,  <<Dec(2, 15), 1>> >>,
      << <<Dec(15, -1), 3>>,  <<Dec(5, -1), 2>>,   <<Dec(150, 0), 3>> >> }

(* the ordered pairs <<receiver, operand>> of the binary operations *)
Pairs == { <<1, 2>>, <<1, 3>>, <<1, 1>>, <<2, 3>>, <<2, 1>> }

Receivers == { pr[1] : pr \in Pairs }

(* the heap after new DNum(...) has built instances 1, 2 and 3 *)
Built(in) ==
    NewDNum(NewDNum(NewDNum(Blank, 1, in[1][1], in[1][2]), 2, in[2][1], in[2][2]),
            3, in[3][1], in[3][2])

Init ==
    /\ \E in \in Inputs : heap = Built(in)
    /\ prev = Blank
    /\ last = [op |-> "new", rcv |-> 0, arg |-> 0]
    /\ steps = 0

HasNaN(h) == \E o \in Objs : h.num[o].s = NaN

(* one call: op on receiver o with argument p takes the heap to h.  A call
   that does not return leaves no state behind it: the run ends at "hang" *)
Step(op, o, p, h) ==
    /\ steps < MaxSteps
    /\ last.op # "hang"
    /\ ~HasNaN(heap)
    /\ heap' = IF h.hung THEN heap ELSE h
    /\ prev' = heap
    /\ last' = [op |-> IF h.hung THEN "hang" ELSE op, rcv |-> o, arg |-> p]
    /\ steps' = steps + 1

Add(o, p) == Step("add", o, p, AddOp(heap, o, p))

Sub(o, p) == Step("sub", o, p, SubOp(heap, o, p))

Mul(o, p) == Step("mul", o, p, MulOp(heap, o, p))

Div(o, p) == Step("div", o, p, DivOp(heap, o, p))

Collapse(o) == Step("collapse", o, 0, CollapseOp(heap, o))

(* the instance that receives a returned value *)
Res == NObj

(* arguments of pow, fromLog (in 1/LogScale decades) and fromAny *)
PowArgs == { 0, 1, 2, 3, 5 }

LogArgs == { -1600, 30, 1000 * LogScale }

AnyArgs ==
    { Dec(150, 0), Dec(2, 15), Dec(-3, 20), E(15), E(16), Dec(-1, -20), Dec(-15, -1) }

TextArgs == { "150", "-2e15", "abc" }

(* toString(precision = 2) *)
StyledPrecision == 2

(* toPreciseString(decimalPlaces = 10) *)
PrecisePlaces == 10

Pow(o, n) == Step("pow", o, n, PowOp(heap, Res, o, n))

(* a sqrt() that accepts every receiver *)
SqrtNeverThrows(h, o) == FALSE

(* if (this.s < 0) throw new Error(...) *)
SqrtThrows(h, o) == h.num[o].s.sg < 0

(* the instance whose pow(2) instance o is, 0 when it is no such result *)
SquareOf(o) == IF o = Res /\ last.op = "pow" /\ last.arg = 2 THEN last.rcv ELSE 0

(* sqrt() of a negative value throws before it changes anything; last.arg
   remembers the instance x when the receiver is x.pow(2) *)
Sqrt(o) ==
    IF SqrtThrows(heap, o) THEN Step("sqrtThrow", o, 0, heap)
    ELSE Step("sqrt", o, SquareOf(o), SqrtOp(heap, Res, o))

(* the pairs <<a, b>> handed to getDistance *)
DistPairs == { <<1, 2>>, <<2, 1>>, <<1, 1>> }

GetDistance(a, b) == Step("getDistance", a, b, GetDistanceOp(heap, Res, a, b))

FromLog(logV) == Step("fromLog", 0, 0, FromLogOp(heap, Res, logV))

(* last.arg remembers the number handed to fromAny *)
FromAny(val) == Step("fromAny", 0, val, FromAnyOp(heap, Res, val))

(* last.arg remembers the string handed to fromAny *)
FromAnyText(input) == Step("fromAnyText", 0, input, FromAnyOp(heap, Res, ParseFloat(input)))

FromStyledString(o) ==
    Step("fromStyledString", o, 0, FromStyledOp(heap, Res, ToStyled(heap, o, StyledPrecision)))

Deserialize(o) == Step("deserialize", o, 0, DeserializeOp(heap, Res, Serialize(heap, o)))

Next ==
    \/ \E pr \in Pairs : Add(pr[1], pr[2])
    \/ \E pr \in Pairs : Sub(pr[1], pr[2])
    \/ \E pr \in Pairs : Mul(pr[1], pr[2])
    \/ \E pr \in Pairs : Div(pr[1], pr[2])
    \/ \E o \in Receivers : Collapse(o)
    \/ \E o \in Receivers, n \in PowArgs : Pow(o, n)
    \/ \E o \in Receivers \cup {Res} : Sqrt(o)
    \/ \E pr \in DistPairs : GetDistance(pr[1], pr[2])
    \/ \E logV \in LogArgs : FromLog(logV)
    \/ \E val \in AnyArgs : FromAny(val)
    \/ \E input \in TextArgs : FromAnyText(input)
    \/ \E o \in Receivers : FromStyledString(o)
    \/ \E o \in Receivers : Deserialize(o)

Spec == Init /\ [][Next]_vars

----------------------------------------------------------------------------
(* The nanometre scenario of src/test/dnum.test.ts: 300 billion, and 1e-9   *)
(* added to it again and again.                                             *)

(* for (let i = 0; i < 100000; i++) *)
NanoAdds == 100000

NanoInit ==
    /\ heap = Built(<< <<Dec(3, 11), 1>>, <<Dec(1, -9), 1>>, <<Zero, 1>> >>)
    /\ prev = Blank
    /\ last = [op |-> "new", rcv |-> 0, arg |-> 0]
    /\ steps = 0

(* dist.add(correction) *)
NanoAdd ==
    /\ steps < NanoAdds
    /\ heap' = AddOp(heap, 1, 2)
    /\ prev' = heap
    /\ last' = [op |-> "add", rcv |-> 1, arg |-> 2]
    /\ steps' = steps + 1

NanoNext == NanoAdd

SpecNano == NanoInit /\ [][NanoNext]_vars

----------------------------------------------------------------------------
(* The ledger on its own: deposit(value, dim) called on the ledger of        *)
(* instance 1, as deserialize and internalAdd call it.                       *)

(* the amounts and the dimensions handed to deposit *)
DepValues == { Zero, Dec(1, 0), Dec(50, 0), Dec(-50, 0), Dec(99, 0), Dec(-120, 0), Dec(250, 0) }

DepDims == { 1, 2, 3 }

(* this.tracers.deposit(value, dim); last.arg remembers <<value, dim>> *)
DepositCall(value, dim) ==
    Step("deposit", 1, <<value, dim>>, Deposit(heap, heap.num[1].tr, value, dim))

DepositNext1 == \E value \in DepValues, dim \in DepDims : DepositCall(value, dim)

SpecDeposit == Init /\ [][DepositNext1]_vars

----------------------------------------------------------------------------
(* normalize() on its own: the constructor assigns s and d as they come and  *)
(* calls normalize(); a second constructor, handed the fields of the first   *)
(* instance, calls it again on its result.                                   *)

(* side lengths around the borders of normalize: 1e-10, 1.1, 100, 1e15 *)
NormMants == { 100, 105, 110, 500, 9999 }

NormExps == { -14, -12, -2, 0, 11, 13 }

NormS == { Zero } \cup { Dec(sg * m, e) : sg \in {1, -1}, m \in NormMants, e \in NormExps }

NormD == { 1, 2, 3, 12, 40, 500 }

(* d as a number: at 1e16 (2^53 for a double) and above, d + 1 is d *)
WideArgs == { <<Dec(100, 0), E(16)>>, <<Dec(-150, 0), Dec(5, 16)>>, <<Zero, E(16)>> }

NormInit ==
    /\ heap = Blank
    /\ prev = Blank
    /\ last = [op |-> "new", rcv |-> 0, arg |-> 0]
    /\ steps = 0

(* new DNum(s, d), building instance 1 *)
Construct(s, d) ==
    /\ last.op = "new"
    /\ Step("construct", 1, <<s, d>>, NewDNum(heap, 1, s, d))

(* new DNum(a.s, a.d) of instance 1, building instance 2 *)
Reconstruct ==
    /\ last.op = "construct"
    /\ Step("reconstruct", 2, 1, NewDNum(heap, 2, heap.num[1].s, heap.num[1].d))

(* a turn of the promotion loop at a d that d += 1 leaves as it is:
   s = sign * 10^(logV / d) is the side length it was, and the turn repeats *)
PromoteStuck(s, d) == FGe(FAbs(s), Dec(MAX_S, 0)) /\ FAdd(d, E(0)) = d

(* new DNum(s, d) for a d beyond the integers a number holds exactly: zero is
   reset to (0, 1), and a promotion loop that is stuck does not return *)
NewDNumWide(h, o, s, d) ==
    IF s = Zero THEN NewDNum(h, o, Zero, 1) ELSE [h EXCEPT !.hung = PromoteStuck(s, d)]

ConstructWide(s, d) ==
    /\ last.op = "new"
    /\ s = Zero \/ PromoteStuck(s, d)
    /\ Step("constructWide", 1, <<s, d>>, NewDNumWide(heap, 1, s, d))

NormNext ==
    \/ \E s \in NormS, d \in NormD : Construct(s, d)
    \/ Reconstruct
    \/ \E a \in WideArgs : ConstructWide(a[1], a[2])

SpecNormalize == NormInit /\ [][NormNext]_vars

----------------------------------------------------------------------------
(* collapse() again and again on one receiver, from the states that one add  *)
(* or sub leaves behind.                                                     *)

CollapseInit ==
    /\ \E in \in Inputs, pr \in Pairs :
           \/ /\ heap = AddOp(Built(in), pr[1], pr[2])
              /\ last = [op |-> "add", rcv |-> pr[1], arg |-> pr[2]]
           \/ /\ heap = SubOp(Built(in), pr[1], pr[2])
              /\ last = [op |-> "sub", rcv |-> pr[1], arg |-> pr[2]]
    /\ prev = Blank
    /\ steps = 0

(* a.collapse() on the receiver of the call before *)
CollapseNext == Collapse(last.rcv)

SpecCollapse == CollapseInit /\ [][CollapseNext]_vars

----------------------------------------------------------------------------
(* a.add(b) and then a.sub(b), on instances fresh from their constructors.  *)

(* the pairs <<a, b>> of two instances *)
TripPairs == { pr \in Pairs : pr[1] # pr[2] }

(* a.add(b); last.arg remembers b and the fields a had before the call *)
TripAdd(o, p) ==
    /\ last.op = "new"
    /\ Step("add", o, <<p, heap.num[o]>>, AddOp(heap, o, p))

(* a.sub(b) with the operand of the add before *)
TripSub ==
    /\ last.op = "add"
    /\ Step("sub", last.rcv, last.arg, SubOp(heap, last.rcv, last.arg[1]))

TripNext ==
    \/ \E pr \in TripPairs : TripAdd(pr[1], pr[2])
    \/ TripSub

SpecRoundTrip == Init /\ [][TripNext]_vars

----------------------------------------------------------------------------
(* The claims *)

S(h, o) == h.num[o].s

D(h, o) == h.num[o].d

IsAddSub == last.op \in {"add", "sub"}

(* the amount the last add or sub handed to internalAdd *)
Amount == IF last.op = "sub" THEN FNeg(S(prev, last.arg)) ELSE S(prev, last.arg)

(* receiver.totalLog - amountD * log10(|amountS|) before the last call *)
Gap == TotalLog(prev, last.rcv) - D(prev, last.arg) * LogOr(S(prev, last.arg), 15)

InWindow(s) == FGe(FAbs(s), MIN_S) /\ FLt(FAbs(s), Dec(MAX_S, 0))

(* C1: every instance has a positive integer d, d > 1 implies
   1.1 <= |s| < 100, and s == 0 occurs only together with d == 1 *)
C1_Window ==
    \A o \in Objs :
        /\ D(heap, o) \in Nat \ {0}
        /\ D(heap, o) > 1 => InWindow(S(heap, o))
        /\ S(heap, o) = Zero => D(heap, o) = 1

(* C2: every ledger bucket at a dimension > 1 holds a value strictly between
   -100 and 100 *)
C2_LedgerBound ==
    \A o \in Objs : \A i \in 1 .. Len(GetBuckets(heap, o)) :
        GetBuckets(heap, o)[i].dim > 1 =>
            FLt(FAbs(GetBuckets(heap, o)[i].val), Dec(THRESHOLD, 0))

(* a bucket at dimension 2 has reached the threshold: it was reset and its
   sum promoted into the bucket at dimension 3 *)
C2_Promoted ==
    \E o \in Objs :
        /\ BHas(GetBuckets(heap, o), 2) /\ BGet(GetBuckets(heap, o), 2) = Zero
        /\ BGet(GetBuckets(heap, o), 3) # Zero

Dimensional == D(prev, last.rcv) > 1 \/ D(prev, last.arg) > 1

Diverted ==
    /\ S(heap, last.rcv) = S(prev, last.rcv)
    /\ D(heap, last.rcv) = D(prev, last.rcv)
    /\ BGet(GetBuckets(heap, last.rcv), D(prev, last.arg))
           = FAdd(BGet(GetBuckets(prev, last.rcv), D(prev, last.arg)), Amount)

(* C3 as stated: when the receiver or the addend is above dimension 1 and the
   gap is above 15 decades, add/sub leave the receiver's s and d unchanged and
   add the signed amount to the receiver's bucket at the addend's dimension *)
C3_AsStated == (IsAddSub /\ Dimensional /\ Gap > 15 * LogScale) => Diverted

(* the running sum of the bucket stays below the promotion threshold, or the
   bucket is the one at dimension 1, which never promotes *)
NoPromotion ==
    \/ D(prev, last.arg) = 1
    \/ FLt(FAbs(FAdd(BGet(GetBuckets(prev, last.rcv), D(prev, last.arg)), Amount)),
           Dec(THRESHOLD, 0))

(* C3 amended: the same, for an operand whose own ledger is empty and a
   running sum that stays inside (-100, 100) or lies at dimension 1 *)
C3_Diversion ==
    (/\ IsAddSub /\ Dimensional /\ Gap > 15 * LogScale
     /\ GetBuckets(prev, last.arg) = <<>>
     /\ NoPromotion) => Diverted

(* a sub was diverted: the bucket at the operand's dimension has changed *)
C3_Diverted ==
    /\ last.op = "sub" /\ Dimensional /\ Gap > 15 * LogScale
    /\ GetBuckets(prev, last.arg) = <<>> /\ NoPromotion
    /\ BGet(GetBuckets(heap, last.rcv), D(prev, last.arg))
           # BGet(GetBuckets(prev, last.rcv), D(prev, last.arg))

(* C4: after n additions of 1e-9 to 300000000000 the main value is still
   300000000000 at d = 1 and the dimension-1 bucket holds n * 1e-9; after
   100000 additions toPreciseString(10) is "300000000000.0001000000" *)
C4_Residue ==
    /\ (/\ last.op = "add"
        /\ D(prev, last.rcv) = 1 /\ D(prev, last.arg) = 1
        /\ LogOr(S(prev, last.rcv), 20) - LogOr(S(prev, last.arg), 20) > 15 * LogScale
        /\ GetBuckets(prev, last.arg) = <<>>)
       => /\ S(heap, last.rcv) = S(prev, last.rcv)
          /\ D(heap, last.rcv) = 1
          /\ BGet(GetBuckets(heap, last.rcv), 1)
                 = FAdd(BGet(GetBuckets(prev, last.rcv), 1), S(prev, last.arg))
    /\ S(heap, 1) = Dec(3, 11) /\ D(heap, 1) = 1
    /\ BGet(GetBuckets(heap, 1), 1) = Dec(steps, -9)
    /\ steps = NanoAdds =>
           ToPreciseString(heap, 1, PrecisePlaces) = "300000000000.0001000000"

(* all 100000 additions are done and the string is the expected one *)
C4_Done ==
    /\ steps = NanoAdds
    /\ ToPreciseString(heap, 1, PrecisePlaces) = "300000000000.0001000000"

(* C5: for a receiver and an operand at d == 1 with |s| < 1e15, the operand's
   ledger empty, add/sub set s to exactly receiver.s +/- operand.s, and d
   stays 1 while the result is below 1e15 *)
C5_FastPath ==
    (/\ IsAddSub
     /\ D(prev, last.rcv) = 1 /\ FLt(FAbs(S(prev, last.rcv)), E(15))
     /\ D(prev, last.arg) = 1 /\ FLt(FAbs(S(prev, last.arg)), E(15))
     /\ GetBuckets(prev, last.arg) = <<>>)
    => /\ S(heap, last.rcv) = FAdd(S(prev, last.rcv), Amount)
       /\ FLt(FAbs(S(heap, last.rcv)), E(15)) => D(heap, last.rcv) = 1

(* C6: after collapse() the receiver's ledger holds no nonzero value *)
C6_LedgerEmpty ==
    last.op = "collapse" =>
        \A i \in 1 .. Len(GetBuckets(heap, last.rcv)) :
            GetBuckets(heap, last.rcv)[i].val = Zero

DimsIn(bs) == {bs[i].dim : i \in 1 .. Len(bs)}

(* C7: collapse() deposits no bucket amount back into the ledger: every
   bucket holds afterwards what it held before, or nothing *)
C7_NoRedeposit ==
    last.op = "collapse" =>
        \A dim \in DimsIn(GetBuckets(heap, last.rcv)) :
            \/ BGet(GetBuckets(heap, last.rcv), dim) = Zero
            \/ BGet(GetBuckets(heap, last.rcv), dim) = BGet(GetBuckets(prev, last.rcv), dim)

(* the text of neg * (int + frac) rounded to places, 0 <= frac < 1: a fraction
   that rounds up to 1 is carried into the integer part *)
RoundedText(neg, int, n, places) ==
    (IF neg THEN "-" ELSE "")
        \o IntText(FAdd(int, IF AfterPoint(n, places) # n THEN E(0) ELSE Zero)) \o "."
        \o FracText(AfterPoint(n, places), places)

(* the text of the value j + g for an integer j and 0 <= g < 1 *)
ValueText(j, g, places) ==
    IF j.sg >= 0 THEN RoundedText(FALSE, j, ToFixed(g, places), places)
    ELSE IF g = Zero THEN RoundedText(TRUE, FNeg(j), <<0, 0>>, places)
    ELSE RoundedText(TRUE, FSub(FNeg(j), E(0)), ToFixed(FSub(E(0), g), places), places)

(* the value sign * (int + f) + r, split into an integer and a fraction *)
SplitText(sign, int, a, places) ==
    ValueText(FAdd(Signed(sign, int), Floor(a)), FSub(a, Floor(a)), places)

(* the decimal expansion of s + r, r the sum of the residues of instance o *)
TrueText(h, o, places) ==
    SplitText(SignOf(S(h, o)), FFloor(FAbs(S(h, o))),
              Accumulate(Signed(SignOf(S(h, o)), FMod1(FAbs(S(h, o)))), GetBuckets(h, o)),
              places)

(* C8: toPreciseString(p) of a value at d == 1, of either sign, whose ledger
   holds residues summing to r is the decimal expansion of s + r to p places *)
C8_TrueValue ==
    \A o \in Objs :
        (D(heap, o) = 1 /\ DimsIn(GetBuckets(heap, o)) \subseteq {1}) =>
            ToPreciseString(heap, o, PrecisePlaces) = TrueText(heap, o, PrecisePlaces)

(* C9: isZero() is true if and only if s == 0 and the bucket at every
   dimension is exactly zero *)
C9_IsZero ==
    \A o \in Objs :
        IsZero(heap, o) <=>
            /\ S(heap, o) = Zero
            /\ \A dim \in DimsIn(GetBuckets(heap, o)) : BGet(GetBuckets(heap, o), dim) = Zero

(* a sub has brought s to 0 while a residue is held: the value is not zero *)
C9_HiddenResidue ==
    /\ last.op = "sub"
    /\ S(heap, last.rcv) = Zero
    /\ BGet(GetBuckets(heap, last.rcv), 1) # Zero
    /\ ~IsZero(heap, last.rcv)

Same(o) ==
    /\ heap.num[o] = prev.num[o]
    /\ GetBuckets(heap, o) = GetBuckets(prev, o)

(* C10: a.add(b), a.sub(b) and getDistance(a, b) leave b's s, d and buckets
   unchanged; no two instances share a ledger; a call that mutates its
   receiver changes nothing in any other instance *)
C10_OperandUntouched ==
    /\ (IsAddSub /\ last.rcv # last.arg) => Same(last.arg)
    /\ last.op = "getDistance" => Same(last.rcv) /\ Same(last.arg)
    /\ \A a, b \in Objs : a # b => heap.num[a].tr # heap.num[b].tr
    /\ last.op \in {"add", "sub", "mul", "div", "collapse"} =>
           \A o \in Objs \ {last.rcv} : Same(o)

(* an add has deposited into the receiver's ledger, beside an operand that
   holds residues of its own *)
C10_Deposited ==
    /\ last.op = "add" /\ last.rcv # last.arg
    /\ GetBuckets(heap, last.rcv) # GetBuckets(prev, last.rcv)
    /\ GetBuckets(heap, last.arg) # <<>>

(* the nonzero entries <<dim, val>> of a ledger *)
Active(bs) == {<<bs[i].dim, bs[i].val>> : i \in {j \in 1 .. Len(bs) : bs[j].val # Zero}}

(* C11: deserialize(serialize(v)) has the same s and d as v and the same set
   of nonzero ledger buckets *)
C11_RoundTrip ==
    last.op = "deserialize" =>
        /\ S(heap, Res) = S(prev, last.rcv)
        /\ D(heap, Res) = D(prev, last.rcv)
        /\ Active(GetBuckets(heap, Res)) = Active(GetBuckets(prev, last.rcv))

(* |s| has at most places fractional digits *)
HasPlaces(s, places) ==
    Norm(1, ToFixed(FMod1(FAbs(s)), places), -places) = FMod1(FAbs(s))

(* (s, d) is a fixed point of normalize *)
Normalized(h, o) == Normalize(S(h, o), D(h, o)) = [s |-> S(h, o), d |-> D(h, o)]

(* the last call parsed toString(precision) of a normalized receiver whose
   fraction fits the precision *)
StyledCase ==
    /\ last.op = "fromStyledString"
    /\ Normalized(prev, last.rcv)
    /\ HasPlaces(S(prev, last.rcv), StyledPrecision)

(* C12: for a normalized value whose |s| has at most precision fractional
   digits, fromStyledString(toString(precision)) yields the same s and d *)
C12_StyledRoundTrip ==
    StyledCase => /\ S(heap, Res) = S(prev, last.rcv)
                  /\ D(heap, Res) = D(prev, last.rcv)

(* a value above dimension 1 with a nonzero fraction has made the round trip *)
C12_Parsed ==
    /\ StyledCase
    /\ D(prev, last.rcv) > 1
    /\ FMod1(FAbs(S(prev, last.rcv))) # Zero
    /\ S(heap, Res) = S(prev, last.rcv)

(* log10 of | |a| + sign * |b| | for |a| = 10^maxLog >= |b| = 10^minLog > 0, in
   1/LogScale decades; 10^(minLog - maxLog) vanishes beside 1 beyond 16 decades *)
DistLog(maxLog, minLog, sign) ==
    IF maxLog - minLog > 16 * LogScale THEN maxLog
    ELSE maxLog + FLog10(FAdd(E(0), Signed(sign, Pow10(minLog - maxLog))))

(* log10 of |a - b| for instances a # b of h, not both zero: values of opposite
   sign add their magnitudes, values of the same sign subtract them *)
TrueDistLog(h, a, b) ==
    IF S(h, a) = Zero THEN TotalLog(h, b)
    ELSE IF S(h, b) = Zero THEN TotalLog(h, a)
    ELSE DistLog(Max(TotalLog(h, a), TotalLog(h, b)), Min(TotalLog(h, a), TotalLog(h, b)),
                 -(S(h, a).sg * S(h, b).sg))

(* a and b are the same value: same sign and same total log *)
SameValue(h, a, b) ==
    S(h, a).sg = S(h, b).sg /\ (S(h, a) = Zero \/ TotalLog(h, a) = TotalLog(h, b))

Within(x, y, tol) == x - y <= tol /\ y - x <= tol

(* C13: getDistance(a, b) returns |a - b| for values of any signs, and
   canonical zero when a and b are the same value; the total log of the result
   is compared up to the rounding of s to the log grid *)
C13_Distance ==
    last.op = "getDistance" =>
        IF SameValue(prev, last.rcv, last.arg)
        THEN S(heap, Res) = Zero /\ D(heap, Res) = 1
        ELSE /\ S(heap, Res) # Zero
             /\ Within(TotalLog(heap, Res), TrueDistLog(prev, last.rcv, last.arg),
                       D(heap, Res))

(* the bucket at dim holds, after the last mul, the amount val of before it
   with its sign kept and dim * log10(|val|) raised by factorLog, up to the
   rounding of the amount to the log grid *)
BucketScaled(val, dim, factorLog) ==
    /\ BGet(GetBuckets(heap, last.rcv), dim).sg = val.sg
    /\ Within(dim * FLog10(BGet(GetBuckets(heap, last.rcv), dim)),
              dim * FLog10(val) + factorLog, dim)

(* C14: a.mul(b) raises the total log of the main value by b.totalLog and
   scales every residual bucket, with its sign, by the same b.totalLog *)
C14_MulScales ==
    last.op = "mul" =>
        /\ Within(TotalLog(heap, last.rcv),
                  TotalLog(prev, last.rcv) + TotalLog(prev, last.arg),
                  D(heap, last.rcv) + D(prev, last.rcv))
        /\ \A e \in Active(GetBuckets(prev, last.rcv)) :
               BucketScaled(e[2], e[1], TotalLog(prev, last.arg))

(* C15: sqrt() on a value with s < 0 throws instead of returning a value
   and leaves the receiver's s, d and ledger unchanged; sqrt() of canonical
   zero returns canonical zero *)
C15_SqrtDomain ==
    /\ last.op \in {"sqrt", "sqrtThrow"} =>
           (last.op = "sqrtThrow" <=> S(prev, last.rcv).sg < 0)
    /\ last.op = "sqrtThrow" => heap = prev
    /\ (last.op = "sqrt" /\ S(prev, last.rcv) = Zero /\ GetBuckets(prev, last.rcv) = <<>>)
           => /\ S(heap, Res) = Zero /\ D(heap, Res) = 1
              /\ GetBuckets(heap, Res) = <<>>

(* sqrt() was called on a negative receiver and threw *)
C15_Thrown ==
    /\ last.op = "sqrtThrow"
    /\ S(heap, last.rcv).sg < 0
    /\ Same(last.rcv)

(* the value stored as Res has the total log logV, up to the rounding of s
   to the log grid, or is zero when logV is the total log of zero *)
ResHasLog(logV, isZero) ==
    IF isZero THEN S(heap, Res) = Zero
    ELSE /\ S(heap, Res) # Zero
         /\ Within(TotalLog(heap, Res), logV, D(heap, Res) + 2)

(* C16 as stated: for a non-negative receiver, pow(n) yields a value whose
   totalLog is n times the receiver's, sqrt() one whose totalLog is half the
   receiver's, and x.pow(2).sqrt() has the totalLog of x *)
C16_AsStated ==
    /\ (last.op = "pow" /\ S(prev, last.rcv).sg >= 0) =>
           ResHasLog(last.arg * TotalLog(prev, last.rcv), S(prev, last.rcv) = Zero)
    /\ last.op = "sqrt" =>
           ResHasLog(RoundDiv(TotalLog(prev, last.rcv), 2), S(prev, last.rcv) = Zero)
    /\ (last.op = "sqrt" /\ last.arg # 0) =>
           ResHasLog(TotalLog(heap, last.arg), S(heap, last.arg) = Zero)

(* logV lies above the floor of fromLog: logV > -15 *)
AboveFloor(logV) == logV > -15 * LogScale

(* C16 amended: the same, for powers that fromLog does not turn into zero:
   the receiver is zero, n is 0 or 1, or n times its totalLog is above -15 *)
C16_PowSqrt ==
    /\ (/\ last.op = "pow" /\ S(prev, last.rcv).sg >= 0
        /\ \/ S(prev, last.rcv) = Zero
           \/ last.arg <= 1
           \/ AboveFloor(last.arg * TotalLog(prev, last.rcv)))
       => ResHasLog(last.arg * TotalLog(prev, last.rcv), S(prev, last.rcv) = Zero)
    /\ last.op = "sqrt" =>
           ResHasLog(RoundDiv(TotalLog(prev, last.rcv), 2), S(prev, last.rcv) = Zero)
    /\ (/\ last.op = "sqrt" /\ last.arg # 0
        /\ S(heap, last.arg) = Zero \/ AboveFloor(2 * TotalLog(heap, last.arg)))
       => ResHasLog(TotalLog(heap, last.arg), S(heap, last.arg) = Zero)

(* x.pow(2).sqrt() has been computed for an x above dimension 1 and has the
   total log of x *)
C16_RoundTripDone ==
    /\ last.op = "sqrt" /\ last.arg # 0
    /\ D(heap, last.arg) > 1
    /\ ResHasLog(TotalLog(heap, last.arg), FALSE)

(* the constructor arguments that built the initial heap *)
BuiltFrom == CHOOSE in \in Inputs : heap = Built(in)

(* C17: for 0 < |v| < 1e15, fromAny(v) and new DNum(v, 1) yield s == v and
   d == 1; for |v| >= 1e15, fromAny(v) yields d > 1 with |s| <= 100, the sign
   of v, and d * log10(|s|) equal to log10(|v|) up to the rounding of s to the
   log grid *)
C17_Ingestion ==
    /\ (last.op = "fromAny" /\ last.arg # Zero /\ FLt(FAbs(last.arg), E(15))) =>
           S(heap, Res) = last.arg /\ D(heap, Res) = 1
    /\ (last.op = "fromAny" /\ FGe(FAbs(last.arg), E(15))) =>
           /\ D(heap, Res) > 1
           /\ FLe(FAbs(S(heap, Res)), Dec(MAX_S, 0))
           /\ S(heap, Res).sg = last.arg.sg
           /\ Within(TotalLog(heap, Res), FLog10(last.arg), D(heap, Res) + 2)
    /\ last.op = "new" =>
           \A k \in 1 .. 3 :
               (/\ BuiltFrom[k][2] = 1 /\ BuiltFrom[k][1] # Zero
                /\ FLt(FAbs(BuiltFrom[k][1]), E(15)))
               => S(heap, k) = BuiltFrom[k][1] /\ D(heap, k) = 1

(* fromAny has taken a negative number of magnitude >= 1e15 above dimension 1 *)
C17_Lifted ==
    /\ last.op = "fromAny"
    /\ FGe(FAbs(last.arg), E(15)) /\ last.arg.sg < 0
    /\ D(heap, Res) > 1 /\ S(heap, Res).sg < 0

(* C18: after a.div(b) the receiver's total log equals
   max(0, a.totalLog - b.totalLog), up to the rounding of s to the log grid,
   and is never negative *)
C18_DivLog ==
    last.op = "div" =>
        /\ TotalLog(heap, last.rcv) >= 0
        /\ Within(TotalLog(heap, last.rcv),
                  Max(0, TotalLog(prev, last.rcv) - TotalLog(prev, last.arg)),
                  D(heap, last.rcv) + D(prev, last.rcv))

(* the last call was a.sub(b) with b's main value equal to a's at d > 1, a's
   ledger empty and b's ledger holding one residue, at dimension 1 *)
ResidueCase ==
    /\ last.op = "sub" /\ last.rcv # last.arg
    /\ D(prev, last.rcv) > 1
    /\ S(prev, last.arg) = S(prev, last.rcv) /\ D(prev, last.arg) = D(prev, last.rcv)
    /\ GetBuckets(prev, last.rcv) = <<>>
    /\ Len(GetBuckets(prev, last.arg)) = 1
    /\ GetBuckets(prev, last.arg)[1].dim = 1
    /\ GetBuckets(prev, last.arg)[1].val # Zero

(* the receiver holds -r at d == 1, r the residue of the operand *)
ResidueLeft ==
    /\ S(heap, last.rcv) = FNeg(GetBuckets(prev, last.arg)[1].val)
    /\ D(heap, last.rcv) = 1

(* C19 as stated: a.sub(b) leaves a at s = -r, d = 1 *)
C19_AsStated == ResidueCase => ResidueLeft

(* 1e-35 <= |r| <= 1e15: r is within 15 decades of the 1e-20 that stands for
   a main value of zero, and small enough to stay at d == 1 *)
ResidueInRange(r) == FGe(FAbs(r), E(-35)) /\ FLe(FAbs(r), E(15))

(* C19 amended: the same for a residue r with 1e-35 <= |r| <= 1e15 *)
C19_ResidueMerged ==
    (ResidueCase /\ ResidueInRange(GetBuckets(prev, last.arg)[1].val)) => ResidueLeft

(* 10^100 minus (10^100 with 200 in the tracer) has been computed *)
C19_Merged ==
    /\ ResidueCase
    /\ GetBuckets(prev, last.arg)[1].val = Dec(200, 0)
    /\ ResidueLeft

(* what deposit(value, dim) on ledger t has to make of the heap h, sum being
   the running sum of the bucket: nothing for value 0; the bucket set to 0 and
   one internalAdd of the owner with sign * |sum|^(dim/(dim+1)) at dim + 1 for
   |sum| >= 100 above dimension 1; the sum stored otherwise *)
Deposited(h, t, value, dim, sum) ==
    IF value = Zero THEN h
    ELSE IF dim > 1 /\ FGe(FAbs(sum), Dec(THRESHOLD, 0))
    THEN InternalAdd([h EXCEPT !.trs[t].buckets = BSet(@, dim, Zero)], h.trs[t].owner,
                     Signed(SignOf(sum), PowFrac(FAbs(sum), dim, dim + 1)), dim + 1)
    ELSE [h EXCEPT !.trs[t].buckets = BSet(@, dim, sum)]

(* the running sum of the last deposit *)
RunningSum == FAdd(BGet(GetBuckets(prev, 1), last.arg[2]), last.arg[1])

(* C20: a deposit above dimension 1 whose running sum reaches >= 100 or
   <= -100 sets the bucket to zero and calls the owner's internalAdd once with
   (sign * |sum|^(dim/(dim+1)), dim + 1), an amount whose total log equals
   dim * log10(|sum|) up to the log grid; a running sum inside (-100, 100) is
   stored and calls nothing; a deposit of 0 changes nothing *)
C20_Promotion ==
    last.op = "deposit" =>
        /\ heap = Deposited(prev, prev.num[1].tr, last.arg[1], last.arg[2], RunningSum)
        /\ (last.arg[2] > 1 /\ FGe(FAbs(RunningSum), Dec(THRESHOLD, 0))) =>
               /\ BGet(GetBuckets(heap, 1), last.arg[2]) = Zero
               /\ Within((last.arg[2] + 1) * FLog10(PromotedS(RunningSum, last.arg[2])),
                         last.arg[2] * FLog10(RunningSum), last.arg[2] + 1)
        /\ (last.arg[2] > 1 /\ last.arg[1] # Zero /\ FLt(FAbs(RunningSum), Dec(THRESHOLD, 0))) =>
               /\ BGet(GetBuckets(heap, 1), last.arg[2]) = RunningSum
               /\ heap.num = prev.num
        /\ last.arg[1] = Zero => heap = prev

(* a second deposit has brought a bucket above dimension 1 to -100: the
   bucket is zero and the promoted amount has moved the receiver *)
C20_Overflowed ==
    /\ last.op = "deposit" /\ last.arg[2] > 1
    /\ BGet(GetBuckets(prev, 1), last.arg[2]) = Dec(-50, 0)
    /\ RunningSum = Dec(-100, 0)
    /\ BGet(GetBuckets(heap, 1), last.arg[2]) = Zero
    /\ heap # prev

(* the last call was one of the mutating operations *)
IsMutation == last.op \in {"add", "sub", "mul", "div", "collapse"}

(* the changes of d that the last call made, in their order *)
NewJumps == SubSeq(heap.jumps, Len(prev.jumps) + 1, Len(heap.jumps))

(* a change of d is a rung of the ladder: up from a side length at or above
   the ceiling of its tier, down from one below 1.1 or from zero *)
Rung(j) ==
    /\ j.to > j.d => FGe(FAbs(j.s), Ceiling(j.d))
    /\ j.to < j.d => j.s = Zero \/ FLt(FAbs(j.s), MIN_S)

(* C21: in a step of add, sub, mul, div or collapse, d increases only from an
   un-normalized |s| at or above the ceiling of its tier (1e15 at d = 1, 100
   above), decreases only from |s| below 1.1 or from a value that became zero,
   and is unchanged in every other step *)
C21_Ladder ==
    IsMutation =>
        /\ \A i \in 1 .. Len(NewJumps) : Rung(NewJumps[i])
        /\ \A o \in Objs : D(heap, o) # D(prev, o) =>
               \E i \in 1 .. Len(NewJumps) : NewJumps[i].o = o
        /\ \A o \in Objs \ {last.rcv} : D(heap, o) = D(prev, o)

(* one mutating call has taken its receiver down the ladder, its value having
   become zero, and in a later part of the same call up again *)
C21_DownAndUp ==
    /\ IsMutation
    /\ Len(NewJumps) >= 2
    /\ NewJumps[1].to < NewJumps[1].d /\ NewJumps[1].s = Zero
    /\ NewJumps[2].to > NewJumps[2].d /\ FGe(FAbs(NewJumps[2].s), Ceiling(NewJumps[2].d))
    /\ D(heap, last.rcv) # D(prev, last.rcv)

(* C22: normalize is idempotent: applied to its own result, it yields the
   same (s, d) and changes no d *)
C22_Idempotent ==
    last.op = "reconstruct" =>
        /\ S(heap, 2) = S(heap, 1)
        /\ D(heap, 2) = D(heap, 1)
        /\ heap.jumps = prev.jumps

(* normalize has run again on a value that its first run had moved to
   another dimension *)
C22_Twice ==
    /\ last.op = "reconstruct"
    /\ prev.jumps # <<>>
    /\ D(heap, 2) > 1

(* C23: normalize terminates for every finite nonzero s and positive integer
   d; it stops with |s| below the ceiling of its tier, and with |s| >= 1.1 or
   d = 1 *)
C23_Terminates ==
    /\ last.op # "hang"
    /\ last.op = "construct" =>
           /\ ~PromoteGuard(heap.num[1])
           /\ ~DemoteGuard(heap.num[1])

(* C24: pow(0) returns the multiplicative identity (s = 1, d = 1) for every
   receiver, canonical zero included, and pow leaves the receiver's s, d and
   ledger as they were *)
C24_PowZero ==
    last.op = "pow" =>
        /\ last.arg = 0 => S(heap, Res) = E(0) /\ D(heap, Res) = 1
        /\ Same(last.rcv)

(* C25: fromAny of a string that does not parse to a number returns canonical
   zero (s = 0, d = 1), a value whose s and d are numbers *)
C25_Unparsable ==
    (last.op = "fromAnyText" /\ ParseFloat(last.arg) = NaN) =>
        /\ S(heap, Res) = Zero
        /\ D(heap, Res) = 1

(* C26: the receiver of add, sub, mul, div or collapse is left a fixed point
   of normalize: new DNum(s, d) of its fields has the same s and d; a
   receiver at d = 1 holds |s| < 1e15 after an add *)
C26_FixedPoint ==
    IsMutation =>
        /\ Normalized(heap, last.rcv)
        /\ (last.op = "add" /\ D(heap, last.rcv) = 1) => FLt(FAbs(S(heap, last.rcv)), E(15))

(* C27: collapse() is idempotent: a second collapse() directly after the first
   leaves s, d and the ledger as the first left them *)
C27_CollapseTwice ==
    (last.op = "collapse" /\ steps >= 2) => Same(last.rcv)

(* C28: for two instances a and b with empty ledgers, a.add(b) followed by
   a.sub(b) restores a: the same s and d and no nonzero bucket, also when b
   is more than 15 decades above a.  Stated for a and b at dimension 1, where
   sums and differences are exact up to 16 digits *)
C28_RoundTrip ==
    (last.op = "sub" /\ last.arg[2].d = 1 /\ D(heap, last.arg[1]) = 1) =>
        /\ S(heap, last.rcv) = last.arg[2].s
        /\ D(heap, last.rcv) = last.arg[2].d
        /\ IsEmpty(GetBuckets(heap, last.rcv))

(* the heap h with the main value of instance o replaced by its absolute value *)
AbsMain(h, o) == [h EXCEPT !.num[o].s = FAbs(@)]

(* the last call, made on the absolute values of its receiver and operand *)
Unsigned(h) ==
    IF last.op = "mul" THEN MulOp(h, last.rcv, last.arg) ELSE DivOp(h, last.rcv, last.arg)

(* C29: after mul or div the receiver's s is not negative, and the signs of
   the receiver and of the operand have no effect on the result: it is the s
   and d that the call yields on their absolute values *)
C29_Unsigned ==
    last.op \in {"mul", "div"} =>
        /\ S(heap, last.rcv).sg >= 0
        /\ heap.num[last.rcv] = Unsigned(AbsMain(AbsMain(prev, last.rcv), last.arg)).num[last.rcv]

(* instance o is canonical zero: s = 0, d = 1 and an empty ledger *)
CanonicalZero(h, o) == S(h, o) = Zero /\ D(h, o) = 1 /\ GetBuckets(h, o) = <<>>

(* C30: zero is absorbing for mul: if the receiver or the operand is canonical
   zero before a.mul(b), the receiver is canonical zero after it *)
C30_ZeroAbsorbs ==
    (last.op = "mul" /\ (CanonicalZero(prev, last.rcv) \/ CanonicalZero(prev, last.arg))) =>
        CanonicalZero(heap, last.rcv)

=============================================================================
